---- MODULE Spec2Model ----
(***************************************************************************)
(* A model of the rfc tool (markkurossi/rfc, main.go): the record store,   *)
(* the classification escalation pass, component discovery (findGraphs,    *)
(* countGraph, count, collectEdges), the traversal printer and the graph   *)
(* renderer.  Strings are sequences of character codes, Go maps are        *)
(* functions whose iteration order is an input of the step that ranges     *)
(* over them, and a panic ends the run in pc = "aborted".                  *)
(***************************************************************************)
EXTENDS Integers, Sequences, FiniteSets, TLC

VARIABLES
    RFCs,       \* the store: identifier -> record (main.go, var RFCs)
    flags,      \* the parsed command line options
    pc,         \* position of main
    typed,      \* records whose SetTypes call has returned
    rfcs,       \* the root list handed to findGraphs
    idx,        \* number of roots findGraphs has finished
    processed,  \* identifiers in the processed map
    edgeMap,    \* edge key -> Edge
    graphs,     \* the recorded Graph entries
    counted,    \* per recorded Graph, the local graph map countGraph built
    out,        \* the lines written to standard output so far
    fatal       \* the panic that ended the run, "" if none

vars == <<RFCs, flags, pc, typed, rfcs, idx, processed, edgeMap, graphs,
          counted, out, fatal>>

----------------------------------------------------------------------------
(* Bounds of the model *)

MaxRecs == 3
MaxRels == 2

----------------------------------------------------------------------------
(* Types and statuses *)

Current == 0
Updated == 1
Obsoleted == 2

Types == {Current, Updated, Obsoleted}
Kinds == {Updated, Obsoleted}

Unknown == 0
Historic == 1
Experimental == 2
Informational == 3
DraftStandard == 4
ProposedStandard == 5
InternetStandard == 6
BestCurrentPractice == 7

StatusValues == Unknown..BestCurrentPractice

----------------------------------------------------------------------------
(* Strings: sequences of character codes *)

RECURSIVE Digits(_)
\* strconv-style decimal rendering of a natural number
Digits(n) == IF n < 10 THEN <<48 + n>> ELSE Digits(n \div 10) \o <<48 + (n % 10)>>

RECURSIVE StrLess(_, _)
\* Go's < on strings: bytewise lexicographic, a proper prefix is smaller
StrLess(a, b) ==
    IF a = <<>> THEN b # <<>>
    ELSE IF b = <<>> THEN FALSE
    ELSE IF Head(a) < Head(b) THEN TRUE
    ELSE IF Head(a) > Head(b) THEN FALSE
    ELSE StrLess(Tail(a), Tail(b))

\* The identifiers of the records the index may hold, and one identifier that
\* no record carries.
IdPool == <<100, 5, 23, 7, 64>>
Universe == {Digits(IdPool[i]) : i \in 1..MaxRecs}
Absent == Digits(9)
AllIds == Universe \cup {Absent}

\* All orders in which the elements of S can be enumerated
Perms(S) ==
    {p \in [1..Cardinality(S) -> S] : \A i, j \in DOMAIN p : i # j => p[i] # p[j]}

\* The keys of map m in the iteration order ord (a sequence holding every key)
Range(m, ord) == SelectSeq(ord, LAMBDA k : k \in DOMAIN m)

SetMax(S) == CHOOSE x \in S : \A y \in S : y <= x

----------------------------------------------------------------------------
(* The store after loading *)

\* One parsed relation token: the record that declares it, whether it is a
\* forward ("Obsoleted by"/"Updated by") or a backward ("Obsoletes"/"Updates")
\* relation, the referenced identifier and the kind.
RelUniverse ==
    {[owner |-> o, fwd |-> f, target |-> t, kind |-> k] :
        o \in Universe, f \in BOOLEAN, t \in AllIds, k \in Kinds}

\* The relation tokens of an index, in the order the parser meets them
RelSeqs(n) == UNION {[1..m -> {r \in RelUniverse : r.target # r.owner}] : m \in 0..n}

\* The same, for an index in which every referenced identifier has a record
ClosedRelSeqs(n) ==
    UNION {[1..m -> {r \in RelUniverse : r.target # r.owner /\ r.target \in Universe}] :
              m \in 0..n}

\* rfc.Forwards / rfc.Backwards of record o: a later token for the same
\* reference overwrites an earlier one (map assignment).
RelMap(rs, o, f) ==
    LET hits(t) == {i \in 1..Len(rs) :
                      rs[i].owner = o /\ rs[i].fwd = f /\ rs[i].target = t}
    IN  [t \in {rs[i].target : i \in {j \in 1..Len(rs) :
                                        rs[j].owner = o /\ rs[j].fwd = f}}
            |-> rs[SetMax(hits(t))].kind]

\* A date string split at " ": each part is a token that is an integer or not
Word == [isInt |-> FALSE, val |-> 0]
Num(y) == [isInt |-> TRUE, val |-> y]

ParsedRFC(id, rs, status, date) ==
    [Number |-> id, Date |-> date, Type |-> Current, Status |-> status,
     Forwards |-> RelMap(rs, id, TRUE), Backwards |-> RelMap(rs, id, FALSE)]

LoadStore(rs, statusOf, dateOf) ==
    [id \in Universe |-> ParsedRFC(id, rs, statusOf[id], dateOf[id])]

MkFlags(root, size, traverse, list, graph, timeline) ==
    [root |-> root, size |-> size, traverse |-> traverse, list |-> list,
     graph |-> graph, timeline |-> timeline]

\* The state of main after flag.Parse and the loading loop
InitOf(relSeqs, statusProfiles, dateProfiles, flagSet) ==
    /\ \E rs \in relSeqs, st \in statusProfiles, dt \in dateProfiles :
          RFCs = LoadStore(rs, st, dt)
    /\ flags \in flagSet
    /\ pc = "types"
    /\ typed = {}
    /\ rfcs = <<>>
    /\ idx = 0
    /\ processed = {}
    /\ edgeMap = <<>>
    /\ graphs = <<>>
    /\ counted = <<>>
    /\ out = <<>>
    /\ fatal = ""

----------------------------------------------------------------------------
(* GetRFC and the escalation pass *)

\* GetRFC panics exactly when the identifier is not a key of the store
GetRFCPanics(store, id) == id \notin DOMAIN store

\* SetType without its comparison: the last kind applied stays
SetTypeAssign(cur, t) == t

SetType(cur, t) == IF t > cur THEN t ELSE cur

\* The backward loop escalating the record that declares the relation
BackwardOwner(owner, id) == owner

\* The record the backward loop of SetTypes escalates: GetRFC(id)
BackwardTarget(owner, id) == id

RECURSIVE ApplyForwards(_, _, _)
ApplyForwards(store, owner, ks) ==
    IF ks = <<>> THEN store
    ELSE ApplyForwards(
            [store EXCEPT ![owner].Type = SetType(@, store[owner].Forwards[Head(ks)])],
            owner, Tail(ks))

RECURSIVE ApplyBackwards(_, _, _)
ApplyBackwards(store, owner, ks) ==
    IF ks = <<>> THEN [store |-> store, panic |-> FALSE]
    ELSE IF GetRFCPanics(store, Head(ks)) THEN [store |-> store, panic |-> TRUE]
    ELSE ApplyBackwards(
            [store EXCEPT ![BackwardTarget(owner, Head(ks))].Type =
                              SetType(@, store[owner].Backwards[Head(ks)])],
            owner, Tail(ks))

\* rfc.SetTypes() for one record of main's loop over the store; fo and bo are
\* the iteration orders of its two maps.
SetTypes(id) ==
    /\ pc = "types"
    /\ id \in DOMAIN RFCs \ typed
    /\ \E fo \in Perms(DOMAIN RFCs[id].Forwards), bo \in Perms(DOMAIN RFCs[id].Backwards) :
          LET r == ApplyBackwards(ApplyForwards(RFCs, id, fo), id, bo)
          IN  /\ RFCs' = r.store
              /\ typed' = IF r.panic THEN typed ELSE typed \cup {id}
              /\ fatal' = IF r.panic THEN "UnknownRFC" ELSE fatal
              /\ pc' = IF r.panic THEN "aborted"
                       ELSE IF typed' = DOMAIN RFCs THEN "roots" ELSE pc
    /\ UNCHANGED <<flags, rfcs, idx, processed, edgeMap, graphs, counted, out>>

----------------------------------------------------------------------------
(* Root selection and component discovery *)

\* The identifiers that are keys of some record's Forwards or Backwards map
RelKeys == UNION {DOMAIN RFCs[id].Forwards \cup DOMAIN RFCs[id].Backwards : id \in DOMAIN RFCs}

\* The orders in which the relation maps of the store may be iterated
Orders == Perms(RelKeys)

\* main, after the escalation pass: the explicit roots are looked up in the
\* order given, or every record is taken in the store's iteration order.
SelectRoots ==
    /\ pc = "roots"
    /\ IF Len(flags.root) > 0
       THEN IF \E i \in 1..Len(flags.root) : GetRFCPanics(RFCs, flags.root[i])
            THEN /\ pc' = "aborted"
                 /\ fatal' = "UnknownRFC"
                 /\ rfcs' = rfcs
            ELSE /\ pc' = "find"
                 /\ fatal' = fatal
                 /\ rfcs' = flags.root
       ELSE /\ pc' = "find"
            /\ fatal' = fatal
            /\ rfcs' \in Perms(DOMAIN RFCs)
    /\ UNCHANGED <<RFCs, flags, typed, idx, processed, edgeMap, graphs, counted, out>>

\* The identifiers a record's two range loops visit, forwards first
Neighbours(rfc, ord) == Range(rfc.Forwards, ord) \o Range(rfc.Backwards, ord)

RECURSIVE count(_, _, _, _)
RECURSIVE countEach(_, _, _, _)
\* count: c is the returned number, graph the local map afterwards
count(id, graph, proc, ord) ==
    IF id \in proc THEN [c |-> 0, graph |-> graph, panic |-> FALSE]
    ELSE IF id \in graph THEN [c |-> 0, graph |-> graph, panic |-> FALSE]
    ELSE IF GetRFCPanics(RFCs, id) THEN [c |-> 0, graph |-> graph, panic |-> TRUE]
    ELSE LET r == countEach(Neighbours(RFCs[id], ord), graph \cup {id}, proc, ord)
         IN  [c |-> 1 + r.c, graph |-> r.graph, panic |-> r.panic]

countEach(ts, graph, proc, ord) ==
    IF ts = <<>> THEN [c |-> 0, graph |-> graph, panic |-> FALSE]
    ELSE LET h == count(Head(ts), graph, proc, ord)
         IN  IF h.panic THEN h
             ELSE LET r == countEach(Tail(ts), h.graph, proc, ord)
                  IN  [c |-> h.c + r.c, graph |-> r.graph, panic |-> r.panic]

\* The comparison that replaces the leader: leader.Number > rfc.Number
LeaderAfter(leader, number) == StrLess(number, leader)

RECURSIVE PickLeader(_, _)
\* the loop of countGraph over the local map; <<>> stands for the nil leader
PickLeader(ks, leader) ==
    IF ks = <<>> THEN leader
    ELSE PickLeader(Tail(ks),
                    IF leader = <<>> \/ LeaderAfter(leader, Head(ks))
                    THEN Head(ks) ELSE leader)

\* countGraph; ord orders the relation maps, go the local graph map
countGraph(id, proc, ord, go) ==
    LET r == count(id, {}, proc, ord)
    IN  [cnt |-> r.c, graph |-> r.graph, panic |-> r.panic,
         leader |-> IF r.c > 0 /\ ~r.panic
                    THEN PickLeader(SelectSeq(go, LAMBDA k : k \in r.graph), <<>>)
                    ELSE <<>>]

Edge(from, to, type) == [From |-> from, To |-> to, Type |-> type]

\* Edge.ID: fmt.Sprintf("%s:%s:%d", e.From, e.To, e.Type)
EdgeID(e) == e.From \o <<58>> \o e.To \o <<58>> \o Digits(e.Type)

\* The edge appended under a key of its own instead of stored under its ID
PutEdgeAppend(edges, e) ==
    [k \in DOMAIN edges \cup {EdgeID(e) \o <<58>> \o Digits(Cardinality(DOMAIN edges))} |->
        IF k \in DOMAIN edges THEN edges[k] ELSE e]

\* edges[edge.ID()] = edge
PutEdge(edges, e) ==
    [k \in DOMAIN edges \cup {EdgeID(e)} |-> IF k = EdgeID(e) THEN e ELSE edges[k]]

\* The edge collectEdges builds for a forward and for a backward relation
ForwardEdge(id, r, t) == Edge(id, r, t)
BackwardEdge(id, r, t) == Edge(r, id, t)

RECURSIVE collectEdges(_, _, _, _)
RECURSIVE collectEach(_, _, _, _, _)
collectEdges(id, proc, edges, ord) ==
    IF id \in proc THEN [processed |-> proc, edges |-> edges, panic |-> FALSE]
    ELSE IF GetRFCPanics(RFCs, id) THEN [processed |-> proc, edges |-> edges, panic |-> TRUE]
    ELSE LET rfc == RFCs[id]
             f == collectEach(id, [k \in 1..Len(Range(rfc.Forwards, ord)) |->
                                     [r |-> Range(rfc.Forwards, ord)[k], fwd |-> TRUE]],
                              proc \cup {id}, edges, ord)
         IN  IF f.panic THEN f
             ELSE collectEach(id, [k \in 1..Len(Range(rfc.Backwards, ord)) |->
                                     [r |-> Range(rfc.Backwards, ord)[k], fwd |-> FALSE]],
                              f.processed, f.edges, ord)

collectEach(id, ts, proc, edges, ord) ==
    IF ts = <<>> THEN [processed |-> proc, edges |-> edges, panic |-> FALSE]
    ELSE LET r == Head(ts).r
             e == IF Head(ts).fwd
                  THEN ForwardEdge(id, r, RFCs[id].Forwards[r])
                  ELSE BackwardEdge(id, r, RFCs[id].Backwards[r])
             h == collectEdges(r, proc, PutEdge(edges, e), ord)
         IN  IF h.panic THEN h
             ELSE collectEach(id, Tail(ts), h.processed, h.edges, ord)

\* One iteration of the loop of findGraphs, for the root rfcs[idx + 1]
FindGraphs ==
    /\ pc = "find"
    /\ idx < Len(rfcs)
    /\ \E ord \in Orders : \E go \in Perms(count(rfcs[idx + 1], {}, processed, ord).graph) :
          LET g == countGraph(rfcs[idx + 1], processed, ord, go)
              record == ~g.panic /\ g.cnt >= flags.size /\ g.cnt > 0
              ce == IF record THEN collectEdges(g.leader, processed, edgeMap, ord)
                    ELSE [processed |-> processed, edges |-> edgeMap, panic |-> FALSE]
              panic == g.panic \/ ce.panic
          IN  /\ graphs' = IF record
                           THEN Append(graphs, [Leader |-> g.leader, Size |-> g.cnt])
                           ELSE graphs
              /\ counted' = IF record THEN Append(counted, g.graph) ELSE counted
              /\ processed' = ce.processed
              /\ edgeMap' = ce.edges
              /\ idx' = idx + 1
              /\ fatal' = IF panic THEN "UnknownRFC" ELSE fatal
              /\ pc' = IF panic THEN "aborted"
                       ELSE IF idx' = Len(rfcs) THEN "tree" ELSE pc
    /\ UNCHANGED <<RFCs, flags, typed, rfcs, out>>

----------------------------------------------------------------------------
(* Output *)

\* One written line: what it is, the identifiers and the numbers it shows
Line(kind, ids, nums) == [kind |-> kind, ids |-> ids, nums |-> nums]

RECURSIVE Flatten(_)
Flatten(ss) == IF ss = <<>> THEN <<>> ELSE Head(ss) \o Flatten(Tail(ss))

LeaderLess(a, b) == StrLess(a.g.Leader, b.g.Leader)

\* The less function printGraph hands to sort.SliceStable
EdgeLess(a, b) ==
    IF StrLess(a.From, b.From) THEN TRUE
    ELSE IF StrLess(b.From, a.From) THEN FALSE
    ELSE StrLess(a.To, b.To)

\* The less function of a sort, by the name of what is sorted
Less(by, a, b) == IF by = "leader" THEN LeaderLess(a, b) ELSE EdgeLess(a, b)

RECURSIVE Insert(_, _, _)
\* x placed before the first element it is less than
Insert(sorted, x, by) ==
    IF sorted = <<>> THEN <<x>>
    ELSE IF Less(by, x, Head(sorted)) THEN <<x>> \o sorted
    ELSE <<Head(sorted)>> \o Insert(Tail(sorted), x, by)

RECURSIVE SliceStable(_, _)
\* sort.SliceStable: equal elements keep their order
SliceStable(seq, by) ==
    IF seq = <<>> THEN <<>>
    ELSE Insert(SliceStable(SubSeq(seq, 1, Len(seq) - 1), by), seq[Len(seq)], by)

RECURSIVE traverse(_, _, _)
RECURSIVE traverseEach(_, _, _, _)
\* traverse: seen afterwards, the lines printed, and whether GetRFC panicked
traverse(id, seen, ord) ==
    IF id \in seen THEN [seen |-> seen, out |-> <<>>, panic |-> FALSE]
    ELSE IF GetRFCPanics(RFCs, id) THEN [seen |-> seen, out |-> <<>>, panic |-> TRUE]
    ELSE traverseEach(Neighbours(RFCs[id], ord), seen \cup {id},
                      <<Line("tree", <<id>>, <<>>)>>, ord)

traverseEach(ts, seen, lines, ord) ==
    IF ts = <<>> THEN [seen |-> seen, out |-> lines, panic |-> FALSE]
    ELSE LET h == traverse(Head(ts), seen, ord)
         IN  IF h.panic THEN [seen |-> h.seen, out |-> lines \o h.out, panic |-> TRUE]
             ELSE traverseEach(Tail(ts), h.seen, lines \o h.out, ord)

\* main: if len(*traverse) > 0 { printTree(*traverse) }
PrintTree ==
    /\ pc = "tree"
    /\ IF Len(flags.traverse) > 0
       THEN \E ord \in Orders :
               LET r == traverse(flags.traverse, {}, ord)
               IN  /\ out' = out \o r.out
                   /\ fatal' = IF r.panic THEN "UnknownRFC" ELSE fatal
                   /\ pc' = IF r.panic THEN "aborted" ELSE "list"
       ELSE /\ out' = out
            /\ fatal' = fatal
            /\ pc' = "list"
    /\ UNCHANGED <<RFCs, flags, typed, rfcs, idx, processed, edgeMap, graphs, counted>>

\* main: if *list { sort graphs by leader number, print one line per graph }
List ==
    /\ pc = "list"
    /\ IF flags.list
       THEN LET sorted == SliceStable([i \in 1..Len(graphs) |->
                                          [g |-> graphs[i], c |-> counted[i]]],
                                      "leader")
            IN  /\ graphs' = [i \in 1..Len(sorted) |-> sorted[i].g]
                /\ counted' = [i \in 1..Len(sorted) |-> sorted[i].c]
                /\ out' = out \o [i \in 1..Len(sorted) |->
                                    Line("list", <<sorted[i].g.Leader>>, <<sorted[i].g.Size>>)]
       ELSE UNCHANGED <<graphs, counted, out>>
    /\ pc' = "graph"
    /\ UNCHANGED <<RFCs, flags, typed, rfcs, idx, processed, edgeMap, fatal>>

\* RFC.Year: the date must split into two parts, the second an integer
Year(rfc) ==
    IF Len(rfc.Date) # 2 THEN [err |-> TRUE, year |-> 0]
    ELSE IF ~rfc.Date[2].isInt THEN [err |-> TRUE, year |-> 0]
    ELSE [err |-> FALSE, year |-> rfc.Date[2].val]

\* Two of the orders in which the statusName map may be iterated
StatusOrders ==
    {[i \in 1..8 |-> i - 1], [i \in 1..8 |-> 8 - i]}

\* The first loop of printGraph without its test of the processed map
RenderOrdersAll == Perms(DOMAIN RFCs)

\* The first loop of printGraph ranges over the store and skips what is not
\* processed: the records it keeps can come in any order.
RenderOrders == Perms(DOMAIN RFCs \cap processed)

RECURSIVE MinYear(_, _)
MinYear(ks, from) ==
    IF ks = <<>> THEN from
    ELSE LET y == Year(RFCs[Head(ks)]).year
         IN  MinYear(Tail(ks), IF from = 0 \/ y < from THEN y ELSE from)

RECURSIVE MaxYear(_, _)
MaxYear(ks, to) ==
    IF ks = <<>> THEN to
    ELSE LET y == Year(RFCs[Head(ks)]).year
         IN  MaxYear(Tail(ks), IF to = 0 \/ y > to THEN y ELSE to)

\* nodes[t][s]: the rendered records of one classification and status
NodeGroup(ks, t, s) ==
    SelectSeq(ks, LAMBDA k : RFCs[k].Type = t /\ RFCs[k].Status = s)

\* One cell of the nodes array: its directive, then its declarations
GroupLines(ks, t, s) ==
    <<Line("nodestyle", <<>>, <<s, t>>)>> \o
    [i \in 1..Len(NodeGroup(ks, t, s)) |-> Line("node", <<NodeGroup(ks, t, s)[i]>>, <<>>)]

NodeLines(ks) ==
    Flatten([c \in 1..24 |-> GroupLines(ks, (c - 1) \div 8, (c - 1) % 8)])

TimelineLines(from, to) ==
    <<Line("comment", <<>>, <<from, to>>),
      Line("plaintext", <<>>, <<>>),
      Line("chain", <<>>, [i \in 1..(IF to >= from THEN to - from + 1 ELSE 1) |-> from + i - 1]),
      Line("legendlink", <<>>, <<to>>)>>

RankLines(ks, from, to) ==
    Flatten([i \in 1..(IF to >= from THEN to - from + 1 ELSE 0) |->
               LET y == from + i - 1
                   arr == SelectSeq(ks, LAMBDA k : Year(RFCs[k]).year = y)
               IN  IF arr = <<>> THEN <<>> ELSE <<Line("rank", arr, <<y>>)>>])

LegendLines(so1, so2) ==
    Flatten([i \in 1..Len(so1) |->
               <<Line("legendstyle", <<>>, <<so1[i]>>), Line("legendnode", <<>>, <<so1[i]>>)>>])
    \o <<Line("legendrank", <<>>, so2)>>

EdgeLines(eo) ==
    LET sorted == SliceStable([i \in 1..Len(eo) |-> edgeMap[eo[i]]], "edge")
    IN  [i \in 1..Len(sorted) |->
            Line("edge", <<sorted[i].From, sorted[i].To>>, <<sorted[i].Type>>)]

\* Everything printGraph writes when no date is malformed.  ks is the order in
\* which the store's loop meets the processed records, eo the iteration order
\* of the edge map, so1 and so2 those of the two loops over statusName.
GraphLines(timeline, ks, eo, so1, so2) ==
    LET from == MinYear(ks, 0)
        to == MaxYear(ks, 0)
    IN  <<Line("digraph", <<>>, <<>>)>>
        \o (IF timeline THEN TimelineLines(from, to) ELSE <<>>)
        \o NodeLines(ks)
        \o (IF timeline THEN RankLines(ks, from, to) \o LegendLines(so1, so2) ELSE <<>>)
        \o EdgeLines(eo)
        \o <<Line("close", <<>>, <<>>)>>

\* main: if *graph { printGraph(*timeline) }
PrintGraph ==
    /\ pc = "graph"
    /\ IF ~flags.graph
       THEN /\ out' = out
            /\ fatal' = fatal
            /\ pc' = "done"
       ELSE IF \E k \in processed : Year(RFCs[k]).err
       THEN /\ out' = out \o <<Line("digraph", <<>>, <<>>)>>
            /\ fatal' = "InvalidDate"
            /\ pc' = "aborted"
       ELSE /\ \E ks \in RenderOrders, eo \in Perms(DOMAIN edgeMap) :
                 IF flags.timeline
                 THEN \E so1 \in StatusOrders, so2 \in StatusOrders :
                         out' = out \o GraphLines(TRUE, ks, eo, so1, so2)
                 ELSE out' = out \o GraphLines(FALSE, ks, eo, <<>>, <<>>)
            /\ fatal' = fatal
            /\ pc' = "done"
    /\ UNCHANGED <<RFCs, flags, typed, rfcs, idx, processed, edgeMap, graphs, counted>>

----------------------------------------------------------------------------
(* The run *)

Next ==
    \/ \E id \in Universe : SetTypes(id)
    \/ SelectRoots
    \/ FindGraphs
    \/ PrintTree
    \/ List
    \/ PrintGraph

----------------------------------------------------------------------------
(* Specifications: families of indexes and command lines *)

ValidDate(y) == <<Word, Num(y)>>

AllUnknown == [id \in Universe |-> Unknown]
AllValid == [id \in Universe |-> ValidDate(1990)]

\* -r: no root (sweep the whole store) or one root
RootLists == {<<>>} \cup {<<id>> : id \in AllIds}
MinSizes == {0, 2}

\* Any relations, one status and one date; graph mode
Init ==
    InitOf(RelSeqs(MaxRels), {AllUnknown}, {AllValid},
           {MkFlags(r, n, <<>>, FALSE, TRUE, FALSE) : r \in RootLists, n \in MinSizes})

Spec == Init /\ [][Next]_vars

First == Digits(IdPool[1])
Second == Digits(IdPool[2])

\* Any relations between the records; the first record is the one root, list
\* and graph mode
InitRoot ==
    InitOf(ClosedRelSeqs(MaxRels), {AllUnknown}, {AllValid},
           {MkFlags(<<First>>, 0, <<>>, TRUE, TRUE, FALSE)})

SpecRoot == InitRoot /\ [][Next]_vars

\* Statuses and dates that differ between the records
StatusProfiles ==
    {AllUnknown} \cup {[AllUnknown EXCEPT ![id] = Historic] : id \in {First, Second}}
DateProfiles ==
    {AllValid} \cup {[AllValid EXCEPT ![First] = d] :
                        d \in {ValidDate(1989), <<Num(1990)>>, <<Word, Word>>}}

\* At most one relation, differing statuses and dates, one or two explicit
\* roots, graph mode with and without the timeline
InitRender ==
    InitOf(RelSeqs(1), StatusProfiles, DateProfiles,
           {MkFlags(r, n, <<>>, FALSE, TRUE, h) :
               r \in {<<First>>, <<First, Second>>}, n \in MinSizes, h \in BOOLEAN})

SpecRender == InitRender /\ [][Next]_vars

\* -t: no start identifier, or any identifier, with or without a record
StartIds == {<<>>} \cup AllIds

\* Any relations, the first record is the one root, list mode, with and
\* without a traversal
InitTree ==
    InitOf(RelSeqs(MaxRels), {AllUnknown}, {AllValid},
           {MkFlags(<<First>>, 0, t, TRUE, FALSE, FALSE) : t \in StartIds})

SpecTree == InitTree /\ [][Next]_vars

----------------------------------------------------------------------------
(* Notions the properties are stated in *)

Keys(id) == DOMAIN RFCs[id].Forwards \cup DOMAIN RFCs[id].Backwards

\* Every referenced identifier has a record
Closed == \A id \in DOMAIN RFCs : Keys(id) \subseteq DOMAIN RFCs

\* Some relation, taken in either direction, joins a and b
Related(a, b) == b \in Keys(a) \/ a \in Keys(b)

RECURSIVE Closure(_)
Closure(S) ==
    LET T == S \cup {b \in DOMAIN RFCs : \E a \in S : Related(a, b)}
    IN  IF T = S THEN S ELSE Closure(T)

\* The component of a: the records joined to it by relations taken as undirected
Component(a) == Closure({a})

StrMin(S) == CHOOSE x \in S : \A y \in S \ {x} : StrLess(x, y)

\* The kinds the escalation pass applies to record r: those of its own forward
\* relations and those of the backward relations that reference it
AppliedKinds(r) ==
    {RFCs[r].Forwards[k] : k \in DOMAIN RFCs[r].Forwards}
    \cup {RFCs[o].Backwards[r] : o \in {x \in DOMAIN RFCs : r \in DOMAIN RFCs[x].Backwards}}

\* The kinds of the relations that touch r: the ones it declares and the ones
\* that reference it
TouchingKinds(r) ==
    {RFCs[r].Forwards[k] : k \in DOMAIN RFCs[r].Forwards}
    \cup {RFCs[r].Backwards[k] : k \in DOMAIN RFCs[r].Backwards}
    \cup {RFCs[o].Forwards[r] : o \in {x \in DOMAIN RFCs : r \in DOMAIN RFCs[x].Forwards}}
    \cup {RFCs[o].Backwards[r] : o \in {x \in DOMAIN RFCs : r \in DOMAIN RFCs[x].Backwards}}

EscalationDone == typed = DOMAIN RFCs
SweepDone == pc \in {"tree", "list", "graph", "done"}
FullSweep == flags.root = <<>> /\ flags.size = 0

RECURSIVE SumSizes(_)
SumSizes(gs) == IF gs = <<>> THEN 0 ELSE Head(gs).Size + SumSizes(Tail(gs))

----------------------------------------------------------------------------
(* C1 *)

\* C1: after findGraphs has swept every record of a store in which every
\* referenced identifier exists, with minimum size 0, every identifier belongs
\* to exactly one recorded component and the recorded sizes sum to the number
\* of records.
ComponentPartition ==
    (SweepDone /\ FullSweep /\ Closed) =>
        /\ \A id \in DOMAIN RFCs :
              Cardinality({i \in DOMAIN counted : id \in counted[i]}) = 1
        /\ SumSizes(graphs) = Cardinality(DOMAIN RFCs)

----------------------------------------------------------------------------
(* C2 *)

\* C2: in a store in which every referenced identifier exists, countGraph on
\* an empty exclusion set returns the same size and the same leader from any
\* two members of one component, under every iteration order, and the leader
\* is the member whose identifier is smallest as a string.
LeaderDeterminism ==
    Closed =>
        \A a \in DOMAIN RFCs : \A b \in Component(a) :
            \A ord \in Orders : \A ga \in Perms(count(a, {}, {}, ord).graph) :
                \A gb \in Perms(count(b, {}, {}, ord).graph) :
                    LET ra == countGraph(a, {}, ord, ga)
                        rb == countGraph(b, {}, ord, gb)
                    IN  /\ ra.cnt = rb.cnt
                        /\ ra.leader = rb.leader
                        /\ ra.leader = StrMin(Component(a))

----------------------------------------------------------------------------
(* C3 *)

\* C3 as stated: after the escalation pass no record touched by a relation of
\* kind Obsoleted, as the record declaring it (forward or backward) or as the
\* record it references, is Current, and a record to which both Updated and
\* Obsoleted were applied is Obsoleted.
ClassificationMonotonicityAsStated ==
    EscalationDone =>
        \A r \in DOMAIN RFCs :
            /\ Obsoleted \in TouchingKinds(r) => RFCs[r].Type # Current
            /\ {Updated, Obsoleted} \subseteq AppliedKinds(r) => RFCs[r].Type = Obsoleted

\* C3 as amended: after the escalation pass no record that declares a forward
\* relation of kind Obsoleted, or is referenced by a backward relation of kind
\* Obsoleted, is Current, and a record to which both Updated and Obsoleted
\* were applied is Obsoleted.
ClassificationMonotonicity ==
    EscalationDone =>
        \A r \in DOMAIN RFCs :
            /\ Obsoleted \in AppliedKinds(r) => RFCs[r].Type # Current
            /\ {Updated, Obsoleted} \subseteq AppliedKinds(r) => RFCs[r].Type = Obsoleted

\* The pass has run on a store where one record declares "Obsoletes" another:
\* the referenced record is Obsoleted, the declaring one still Current.
ClassificationWitness ==
    /\ EscalationDone
    /\ \E o \in DOMAIN RFCs : \E r \in DOMAIN RFCs[o].Backwards :
          /\ RFCs[o].Backwards[r] = Obsoleted
          /\ r \in DOMAIN RFCs
          /\ RFCs[r].Type = Obsoleted
          /\ RFCs[o].Type = Current

----------------------------------------------------------------------------
(* C4 *)

\* The classification the pass must end with, whatever the order: the highest
\* kind applied to the record, Current if none
Escalated(r) == SetMax({Current} \cup AppliedKinds(r))

\* C4: every order of the records and of each record's relations ends the
\* escalation pass with the same classifications, and no step of the run
\* lowers a classification.
EscalationOrderIndependence ==
    [][/\ \A r \in DOMAIN RFCs : RFCs'[r].Type >= RFCs[r].Type
       /\ (typed' = DOMAIN RFCs') => \A r \in DOMAIN RFCs : RFCs'[r].Type = Escalated(r)]_vars

\* The pass has run on a store where Updated and Obsoleted reach one record
\* from two different records, so the order of the records decides which is
\* applied first.
EscalationWitness ==
    /\ EscalationDone
    /\ \E r \in DOMAIN RFCs : \E o \in DOMAIN RFCs \ {r} :
          /\ r \in DOMAIN RFCs[o].Backwards
          /\ r \in typed /\ o \in typed
          /\ \E k \in DOMAIN RFCs[r].Forwards :
                RFCs[r].Forwards[k] # RFCs[o].Backwards[r]
          /\ RFCs[r].Type = Obsoleted

----------------------------------------------------------------------------
(* C5 *)

\* The line printGraph writes for an edge
EdgeLine(e) == Line("edge", <<e.From, e.To>>, <<e.Type>>)

Occurrences(line) == Cardinality({i \in DOMAIN out : out[i] = line})

\* The (From, To, Kind) edges collectEdges meets twice: a forward relation of
\* a processed record that its processed partner declares as a backward
\* relation of the same kind
TwiceDiscovered ==
    UNION {{Edge(a, b, RFCs[a].Forwards[b]) :
               b \in {x \in processed \cap DOMAIN RFCs[a].Forwards :
                         /\ a \in DOMAIN RFCs[x].Backwards
                         /\ RFCs[x].Backwards[a] = RFCs[a].Forwards[x]}} :
           a \in processed}

\* C5: an edge discovered twice during collectEdges, through a forward
\* relation and through the partner's backward relation, is held once in the
\* edge collection, and the rendered output has exactly one line for it.
EdgeDedup ==
    \A e \in TwiceDiscovered :
        /\ pc # "aborted" => Cardinality({k \in DOMAIN edgeMap : edgeMap[k] = e}) = 1
        /\ (pc = "done" /\ flags.graph) => Occurrences(EdgeLine(e)) = 1

\* The graph has been rendered with an edge that was discovered twice
EdgeDedupWitness ==
    /\ pc = "done"
    /\ flags.graph
    /\ \E e \in TwiceDiscovered : Occurrences(EdgeLine(e)) > 0

----------------------------------------------------------------------------
(* C6 *)

\* The last n lines written
LastLines(n) == SubSeq(out, Len(out) - n + 1, Len(out))

EdgePositions == {i \in DOMAIN out : out[i].kind = "edge"}

\* The edge lines come sorted by From, then To
EdgesSorted ==
    \A i, j \in EdgePositions :
        i < j => ~EdgeLess(Edge(out[j].ids[1], out[j].ids[2], out[j].nums[1]),
                           Edge(out[i].ids[1], out[i].ids[2], out[i].nums[1]))

\* C6: for a fixed store, processed set and edge set, printGraph writes the
\* same lines whatever the iteration orders of the store, the edge map and
\* statusName are (what a run wrote is what every choice of orders writes),
\* and the edge lines are sorted by From, then To.
DeterministicRendering ==
    (pc = "done" /\ flags.graph) =>
        /\ \A ks \in RenderOrders : \A eo \in Perms(DOMAIN edgeMap) :
              \A so1 \in StatusOrders : \A so2 \in StatusOrders :
                 LET lines == GraphLines(flags.timeline, ks, eo, so1, so2)
                 IN  LastLines(Len(lines)) = lines
        /\ EdgesSorted

----------------------------------------------------------------------------
(* C7 *)

\* C7: a run on a store in which some relation references an identifier that
\* has no record never ends normally, whatever the options: it aborts with the
\* unknown-identifier error.
UnknownIdentifierFatal ==
    ~Closed => /\ pc # "done"
               /\ pc = "aborted" => fatal = "UnknownRFC"

----------------------------------------------------------------------------
(* C8 *)

\* C8: a run that ends in a fatal condition has written no line.
NoPartialOutput == pc = "aborted" => out = <<>>

----------------------------------------------------------------------------
(* C9 *)

\* The edges of every relation the record declares
DeclaredEdges(id) ==
    {ForwardEdge(id, r, RFCs[id].Forwards[r]) : r \in DOMAIN RFCs[id].Forwards}
    \cup {BackwardEdge(id, r, RFCs[id].Backwards[r]) : r \in DOMAIN RFCs[id].Backwards}

EdgeSet == {edgeMap[k] : k \in DOMAIN edgeMap}

\* C9: once findGraphs has recorded a component and moved on, every record
\* counted in its Size is in the processed set, and every forward and backward
\* relation of every such record is in the edge collection.
FinalizationCompleteness ==
    pc # "aborted" =>
        \A i \in DOMAIN counted :
            /\ counted[i] \subseteq processed
            /\ \A id \in counted[i] : DeclaredEdges(id) \subseteq EdgeSet

----------------------------------------------------------------------------
(* C10 *)

StylePositions == {i \in DOMAIN out : out[i].kind = "nodestyle"}
DeclPositions(id) == {i \in DOMAIN out : out[i].kind = "node" /\ out[i].ids = <<id>>}

\* The (status, classification) pair of the directive a line stands under:
\* the last node-style directive before it
DirectiveAbove(i) == out[SetMax({j \in StylePositions : j < i})].nums

PairOf(id) == <<RFCs[id].Status, RFCs[id].Type>>

\* Every processed record is declared exactly once, directly under the
\* directive of its own pair, and no other record is declared
DeclaredUnderOwnPair ==
    /\ \A id \in processed :
          /\ Cardinality(DeclPositions(id)) = 1
          /\ \A i \in DeclPositions(id) :
                /\ \E j \in StylePositions : j < i
                /\ DirectiveAbove(i) = PairOf(id)
    /\ \A id \in DOMAIN RFCs \ processed : DeclPositions(id) = {}

\* C10 as stated: printGraph writes a node-style directive for a pair only
\* when some processed record has that pair, one per such pair, and declares
\* every processed record once under the directive of its pair and no other
\* record.
NodeGroupingAsStated ==
    (pc = "done" /\ flags.graph) =>
        /\ \A i \in StylePositions : \E id \in processed : PairOf(id) = out[i].nums
        /\ \A id \in processed :
              Cardinality({i \in StylePositions : out[i].nums = PairOf(id)}) = 1
        /\ DeclaredUnderOwnPair

\* C10 as amended: printGraph writes one node-style directive for every
\* (Classification, LifecycleStatus) pair, whether or not a processed record
\* has it, and declares every processed record once under the directive of
\* its pair and no other record.
NodeGrouping ==
    (pc = "done" /\ flags.graph) =>
        /\ \A t \in Types : \A st \in StatusValues :
              Cardinality({i \in StylePositions : out[i].nums = <<st, t>>}) = 1
        /\ DeclaredUnderOwnPair

\* A graph has been rendered in which two processed records have different
\* pairs and some record is not processed
NodeGroupingWitness ==
    /\ pc = "done"
    /\ flags.graph
    /\ \E a \in processed : \E b \in processed : PairOf(a) # PairOf(b)
    /\ DOMAIN RFCs \ processed # {}
    /\ \A id \in processed : DeclPositions(id) # {}

----------------------------------------------------------------------------
(* C11 *)

\* The positions of out at which printTree wrote the line of record id
TreePositions(id) == {i \in 1..Len(out) : out[i].kind = "tree" /\ out[i].ids = <<id>>}

\* The records printTree wrote a line for
TreePrinted == {id \in AllIds : TreePositions(id) # {}}

\* printTree has run from a start identifier and returned
TreeReturned == Len(flags.traverse) > 0 /\ pc \in {"list", "graph", "done"}

\* C11: printTree from a start identifier terminates on every store, cyclic
\* ones included, and has then written exactly one line for every record
\* joined to the start by forward or backward relations taken as undirected,
\* and no line for any other record.
TraversalCoversComponent ==
    TreeReturned =>
        /\ \A id \in Component(flags.traverse) : Cardinality(TreePositions(id)) = 1
        /\ TreePrinted \subseteq Component(flags.traverse)

====
